---- MODULE Spec2Model ----
(***************************************************************************)
(* Model of the multi-account OAuth2 credential lifecycle of the           *)
(* mcp-google-workspace server (server.ts: OAuthServer and                 *)
(* GoogleWorkspaceServer).  One tool call is a small process that walks    *)
(* through the await points of the CallToolRequestSchema handler and of    *)
(* setupOAuth2 / startAuthFlow; the callback listener is the OAuthServer   *)
(* bound to port 4100.  GAuthService (services/gauth.ts) is modelled from  *)
(* the specification of the CredentialStore and the OAuthClient.           *)
(***************************************************************************)
EXTENDS Naturals, FiniteSets, Sequences, TLC

VARIABLES accounts, store, calls, listener, exchanges, process, bindError, lastReq,
          spawnError, expiryCheck, files, writers, lastRead,
          env, phase, oauthClient, apiClients, toolCalls, lastList, helper

vars == <<accounts, store, calls, listener, exchanges, process, bindError, lastReq,
          spawnError, expiryCheck, files, writers, lastRead,
          env, phase, oauthClient, apiClients, toolCalls, lastList, helper>>

\* The tool classes and the OAuth client they share.
toolVars == <<env, phase, oauthClient, apiClients, toolCalls, lastList>>

\* The variables the tool-call handler and the callback listener leave alone.
auxVars == <<expiryCheck, files, writers, lastRead, toolVars, helper>>

(***************************************************************************)
(* Bounds                                                                  *)
(***************************************************************************)
MaxCalls == 2

MaxCodeRequests == 2

MaxTicks == 8

MaxHelperRequests == 3

(***************************************************************************)
(* Value spaces                                                            *)
(***************************************************************************)
CallIds == 1..MaxCalls

Emails == {"a@x.com", "A@x.com", "b@x.com"}

NoUser == "none"

UserIds == Emails \cup {NoUser}

\* Arguments of a call: the list_accounts tools ignore user_id
ArgsOf(name) == IF name \in {"gmail_list_accounts", "calendar_list_accounts"}
                THEN {NoUser, "a@x.com"} ELSE UserIds

AccountFiles == {{}, {"a@x.com", "b@x.com"}}

Identities == {"a@x.com", "b@x.com"}

ListAccountsTools == {"gmail_list_accounts", "calendar_list_accounts"}

Tools == ListAccountsTools \cup {"gmail_query_emails"}

Paths == {"/code", "/favicon.ico"}

NoCode == "none"

Codes == {"ABC"}

NoRecord == [kind |-> "none"]

StoredTokenSet == [kind |-> "token", refresh |-> "R"]

ExchangeOutcomes == {"ok", "InvalidGrantError", "TransientNetworkError"}

RefreshOutcomes == {"ok", "ReauthRequired", "TransientNetworkError"}

ToolOutcomes == {"ok", "ToolExecutionFailed"}

FlowEffects == {"authUrl", "open", "listen"}

IdleCall == [pc |-> "idle", name |-> "gmail_list_accounts", uid |-> NoUser,
             found |-> FALSE, expired |-> FALSE, effects |-> {}, result |-> "none"]

NoListener == [state |-> "none", owner |-> NoUser, codes |-> 0]

\* lastReq is the request answered by the step just taken, if any
NoRequest == [path |-> "none", code |-> NoCode, status |-> 0]

\* The instants of the expiry check, in seconds; expiry_date 0 is an unset one.
Times == {30 * k : k \in 1..MaxTicks}

ExpiryDates == {0} \cup Times

NoExpiryCheck == [now |-> 0, expiry_date |-> 0, verdict |-> "unchecked"]

\* The accounts of the credential files: two emails that differ only in case.
StoreEmails == {"a@x.com", "A@x.com"}

NoRefresh == "none"

NotFound == [kind |-> "NotFound"]

StorageError == [kind |-> "StorageError"]

\* The provider's answer to a code exchange (offline access: a refresh
\* token is issued) and to a refresh (the refresh token is omitted or
\* reissued).
ExchangeResponses == {[access |-> "t1", refresh |-> "R"]}

RefreshResponses == {[access |-> "t2", refresh |-> NoRefresh],
                     [access |-> "t2", refresh |-> "R2"]}

TokenSets == [kind : {"token"}, access : {"t1", "t2"}, refresh : {"R", "R2"}]

NoFile == [exists |-> FALSE, data |-> <<>>]

IdleWriter == [pc |-> "idle", email |-> NoUser, token |-> NotFound,
               credentials |-> NotFound, response |-> NotFound]

NoRead == [email |-> NoUser, result |-> NotFound]

\* Values of the environment variable GMAIL_ALLOW_SENDING.
EnvValues == {"true", "TRUE", "unset"}

SendingTools == {"gmail_send_email", "gmail_reply", "gmail_forward", "gmail_create_draft"}

GmailToolNames == SendingTools \cup {"gmail_query_emails"}

CalendarToolNames == {"calendar_list"}

ToolNames == GmailToolNames \cup CalendarToolNames

ToolUsers == {"a@x.com", "b@x.com"}

\* The user_id arguments of a tool call; the sending tools are called for
\* one account.
ToolArgsOf(name) == IF name \in SendingTools THEN {"a@x.com"} ELSE ToolUsers

NoClient == "none"

NoList == {"none"}

IdleToolCall == [pc |-> "idle", name |-> "none", uid |-> NoUser,
                 api |-> "none", authAs |-> NoUser]

\* The requests the standalone helper can be sent.
HelperRequestIds == 1..MaxHelperRequests

NoHelperRequest == [state |-> "none", status |-> 0, exchange |-> "none"]

\* auth-helper.mjs not started.
HelperAtRest == [listener |-> "none", exit |-> "none",
                 requests |-> [r \in HelperRequestIds |-> NoHelperRequest]]

\* The tool layer before the constructor has run.
ToolLayerAtRest ==
    /\ env = "unset"
    /\ phase = "new"
    /\ oauthClient = [initialized |-> FALSE, credentials |-> NoUser]
    /\ apiClients = [gmail |-> NoClient, calendar |-> NoClient]
    /\ toolCalls = [c \in CallIds |-> IdleToolCall]
    /\ lastList = NoList

(***************************************************************************)
(* Pure helpers of the handlers                                            *)
(***************************************************************************)
Lower(s) == IF s = "A@x.com" THEN "a@x.com" ELSE s

ValidateAccountIgnoringCase(accts, userId) == \E a \in accts : Lower(a) = Lower(userId)

\* setupOAuth2: accounts.some(a => a.email === userId)
ValidateAccount(accts, userId) == userId \in accts

NeedsAuthFlowWhenExpired(credentials, expired) == credentials = NoRecord \/ expired

\* setupOAuth2: if (!credentials) startAuthFlow(userId); an expired record
\* is only logged and goes on to getUserInfo
NeedsAuthFlow(credentials, expired) == credentials = NoRecord

HandleStatusSwapped(path, code) ==
    IF path # "/code" THEN 400
    ELSE IF code = NoCode THEN 404
    ELSE 200

\* OAuthServer.handleRequest: the status written for a request
HandleStatus(path, code) ==
    IF path # "/code" THEN 404
    ELSE IF code = NoCode THEN 400
    ELSE 200

\* net.Server.listen(4100): the port is free unless a listener is bound to it
PortFree == listener.state # "listening"

\* Interactive flows in flight: the one whose listener is bound, and one
\* that was opened in the browser but whose listener could not bind.
PendingFlows ==
    (IF listener.state = "listening" THEN 1 ELSE 0) + (IF bindError THEN 1 ELSE 0)

AwaitingInteractiveAuth(u) == listener.state = "listening" /\ listener.owner = u

\* Node runs a handler to its next await: while a result is being returned,
\* or an 'error' event is queued for the next tick, nothing else runs.
Replying == \E c \in CallIds : calls[c].pc = "done"

RunningUnlessAwaitingAuth ==
    /\ process = "running" /\ ~bindError /\ ~spawnError /\ ~Replying
    /\ listener.state # "listening"

Running == process = "running" /\ ~bindError /\ ~spawnError /\ ~Replying

\* setupOAuth2's test of the stored expiry_date against Date.now().
IsExpired(tokens, now) == tokens.expiry_date # 0 /\ tokens.expiry_date < now

\* The file of an account's token record: .oauth2.{email}.json
KeyOfIgnoringCase(email) == ".oauth2." \o Lower(email) \o ".json"

KeyOf(email) == ".oauth2." \o email \o ".json"

Keys == {KeyOf(e) : e \in StoreEmails}

\* The temporary file a writer fills before it renames it over the record.
TmpOfInPlace(w, key) == key

TmpOf(w, key) == key \o "." \o ToString(w) \o ".tmp"

FilePaths == Keys \cup {TmpOf(w, k) : w \in CallIds, k \in Keys}

\* A TokenSet on disk: an object with the access token and, when there is
\* one, the refresh token.
Serialize(tokenSet) ==
    <<"{", tokenSet.access>>
        \o (IF tokenSet.refresh = NoRefresh THEN <<>> ELSE <<tokenSet.refresh>>)
        \o <<"}">>

Parse(data) ==
    IF Len(data) \in {3, 4} /\ data[1] = "{" /\ data[Len(data)] = "}"
      THEN [kind |-> "token", access |-> data[2],
            refresh |-> IF Len(data) = 4 THEN data[3] ELSE NoRefresh]
      ELSE StorageError

\* The first write of a file's content, and the content left to write.
FirstPart(data) == SubSeq(data, 1, Len(data) \div 2)

ReadFile(fs, key) == IF fs[key].exists THEN Parse(fs[key].data) ELSE NotFound

\* The TokenSet after a successful refresh of credentials.
RefreshReplacingTokens(credentials, response) ==
    [kind |-> "token", access |-> response.access, refresh |-> response.refresh]

Refresh(credentials, response) ==
    [kind |-> "token", access |-> response.access,
     refresh |-> IF response.refresh = NoRefresh THEN credentials.refresh
                                                 ELSE response.refresh]

(***************************************************************************)
(* Initial state: the server is constructed and start() has connected the  *)
(* transport; the accounts file is loaded and earlier runs may have left   *)
(* token records.                                                          *)
(***************************************************************************)
Init ==
    /\ accounts \in AccountFiles
    /\ store \in [Emails -> {NoRecord, StoredTokenSet}]
    /\ store["A@x.com"] = NoRecord
    /\ calls = [c \in CallIds |-> IdleCall]
    /\ listener = NoListener
    /\ exchanges = [current |-> 0, stale |-> 0, failed |-> "none"]
    /\ process = "starting"
    /\ bindError = FALSE
    /\ spawnError = FALSE
    /\ lastReq = NoRequest
    /\ expiryCheck = NoExpiryCheck
    /\ files = [k \in FilePaths |-> NoFile]
    /\ writers = [w \in CallIds |-> IdleWriter]
    /\ lastRead = NoRead
    /\ ToolLayerAtRest
    /\ helper = HelperAtRest

(***************************************************************************)
(* start(): the transport is connected, and tool calls are served, only    *)
(* after initialize(), getAccountInfo() and the scan of the stored         *)
(* credentials; whatever they throw is rethrown and server.start().catch   *)
(* ends the process with status 1.                                         *)
(***************************************************************************)
StartOutcomes == {"ok", "ConfigError"}

ScanOutcomes == {"ok", "StorageError"}

\* gauth.initialize() and gauth.getAccountInfo() resolve, or throw on a
\* malformed client or accounts file.
Initialize(outcome) ==
    /\ process = "starting"
    /\ process' = IF outcome = "ok" THEN "scanning" ELSE outcome
    /\ UNCHANGED <<accounts, store, calls, listener, exchanges, bindError, lastReq>>
    /\ UNCHANGED <<spawnError, auxVars>>

ScanCredentialsAuthorizing(outcome) ==
    /\ process = "scanning"
    /\ outcome = "StorageError" => \E e \in accounts : store[e] # NoRecord
    /\ process' = IF outcome = "ok" THEN "running" ELSE outcome
    /\ listener' = IF outcome = "ok" /\ \E e \in accounts : store[e] = NoRecord
                     THEN [NoListener EXCEPT !.state = "listening",
                             !.owner = CHOOSE e \in accounts : store[e] = NoRecord]
                     ELSE listener
    /\ UNCHANGED <<accounts, store, calls, exchanges, bindError, lastReq>>
    /\ UNCHANGED <<spawnError, auxVars>>

\* getStoredCredentials of every account resolves, or one of them throws on
\* a record that is there; then server.connect(transport).
ScanCredentials(outcome) ==
    /\ process = "scanning"
    /\ outcome = "StorageError" => \E e \in accounts : store[e] # NoRecord
    /\ process' = IF outcome = "ok" THEN "running" ELSE outcome
    /\ UNCHANGED <<accounts, store, calls, listener, exchanges, bindError, lastReq>>
    /\ UNCHANGED <<spawnError, auxVars>>

(***************************************************************************)
(* The CallToolRequestSchema handler, one action per await point that      *)
(* touches shared state                                                    *)
(***************************************************************************)
FinishSwallowingRefreshError(call, res) ==
    IF res = "TransientNetworkError"
      THEN [call EXCEPT !.pc = "tool", !.result = res, !.effects = @ \cup {"tool"}]
      ELSE [call EXCEPT !.pc = "done", !.result = res, !.expired = FALSE]

\* A result is returned: the value of handleTool, or the error result of
\* one of the catch blocks of the handler.
Finish(call, res) == [call EXCEPT !.pc = "done", !.result = res, !.expired = FALSE]

\* The special case of the handler: the tools that take no user_id.
RequiresUserIdUnlessGmailList(name) == name # "gmail_list_accounts"

RequiresUserId(name) == name \notin ListAccountsTools

\* A tool call arrives.  The argument checks, the list_accounts special
\* case, the user_id check and the validation at the head of setupOAuth2
\* (getAccountInfo reads the list loaded at startup) run before
\* getStoredCredentials is issued.
CallTool(c, name, uid) ==
    /\ Running
    /\ calls[c].pc = "idle"
    /\ LET call == [IdleCall EXCEPT !.name = name, !.uid = uid]
       IN calls' = [calls EXCEPT ![c] =
            IF ~RequiresUserId(name) THEN Finish(call, "accounts")
            ELSE IF uid = NoUser THEN Finish(call, "MissingUserId")
            ELSE IF accounts = {} THEN Finish(call, "NoAccountsConfigured")
            ELSE IF ~ValidateAccount(accounts, uid) THEN Finish(call, "AccountNotConfigured")
            ELSE [call EXCEPT !.pc = "read", !.effects = {"read"}]]
    /\ UNCHANGED <<accounts, store, listener, exchanges, process, bindError>>
    /\ UNCHANGED <<spawnError, auxVars>>
    /\ lastReq' = NoRequest

\* getStoredCredentials resolves with a record: its expiry is compared with
\* the clock (logged only) and getUserInfo(credentials) is issued.
GotCredentials(c, expired) ==
    /\ Running
    /\ calls[c].pc = "read"
    /\ ~NeedsAuthFlow(store[calls[c].uid], expired)
    /\ calls' = [calls EXCEPT ![c] =
          [calls[c] EXCEPT !.pc = "userinfo", !.found = TRUE, !.expired = expired,
                           !.effects = @ \cup {"provider"}]]
    /\ UNCHANGED <<accounts, store, listener, exchanges, process, bindError>>
    /\ UNCHANGED <<spawnError, auxVars>>
    /\ lastReq' = NoRequest

\* getStoredCredentials throws on a record that is there but does not
\* parse: setupOAuth2 rejects and the handler returns the error.
ReadFailed(c) ==
    /\ Running
    /\ calls[c].pc = "read"
    /\ store[calls[c].uid] # NoRecord
    /\ calls' = [calls EXCEPT ![c] = Finish(calls[c], "StorageError")]
    /\ UNCHANGED <<accounts, store, listener, exchanges, process, bindError>>
    /\ UNCHANGED <<spawnError, auxVars>>
    /\ lastReq' = NoRequest

\* getStoredCredentials resolves without a record: startAuthFlow builds the
\* URL, spawn('open'), new OAuthServer, listen(4100).  startAuthFlow and
\* setupOAuth2 return at once, so the handler dispatches the tool in the
\* same turn.  A failed bind is an 'error' event emitted on the next tick,
\* and so is a failed spawn (the 'open' command is missing).
StartAuthFlow(c, expired, spawned) ==
    /\ Running
    /\ calls[c].pc = "read"
    /\ NeedsAuthFlow(store[calls[c].uid], expired)
    /\ store[calls[c].uid] = NoRecord => ~expired
    /\ calls' = [calls EXCEPT ![c] =
          [calls[c] EXCEPT !.pc = "tool", !.found = store[calls[c].uid] # NoRecord,
                           !.expired = expired,
                           !.effects = @ \cup FlowEffects \cup {"tool"}]]
    /\ IF PortFree
         THEN /\ listener' = [state |-> "listening", owner |-> calls[c].uid,
                              codes |-> 0]
              /\ UNCHANGED bindError
         ELSE /\ bindError' = TRUE
              /\ UNCHANGED listener
    /\ UNCHANGED <<accounts, store, exchanges, process>>
    /\ spawnError' = ~spawned
    /\ UNCHANGED auxVars
    /\ lastReq' = NoRequest

\* The 'error' event of the second net.Server has no handler: the process ends.
EmitListenError ==
    /\ process = "running"
    /\ bindError
    /\ process' = "EADDRINUSE"
    /\ bindError' = FALSE
    /\ listener' = NoListener
    /\ UNCHANGED <<accounts, store, calls, exchanges>>
    /\ spawnError' = FALSE
    /\ UNCHANGED auxVars
    /\ lastReq' = NoRequest

\* The 'error' event of the ChildProcess has no handler either.
EmitSpawnError ==
    /\ process = "running"
    /\ spawnError
    /\ process' = "ENOENT"
    /\ spawnError' = FALSE
    /\ bindError' = FALSE
    /\ listener' = NoListener
    /\ UNCHANGED <<accounts, store, calls, exchanges>>
    /\ UNCHANGED auxVars
    /\ lastReq' = NoRequest

RecordDroppedOnReauth(record, outcome) ==
    IF outcome = "ok" THEN StoredTokenSet
    ELSE IF outcome = "ReauthRequired" THEN NoRecord
    ELSE record

\* setupOAuth2: storeCredentials(credentials, userId) is reached only when
\* getUserInfo(credentials) did not throw; nothing else touches the record.
RecordAfterUserInfo(record, outcome) ==
    IF outcome = "ok" THEN StoredTokenSet ELSE record

\* getUserInfo(credentials) resolves or throws (the provider is contacted
\* and an expired token refreshed); on success storeCredentials writes the
\* record, setupOAuth2 returns and the handler dispatches the tool.
UserInfo(c, outcome) ==
    /\ Running
    /\ calls[c].pc = "userinfo"
    /\ store' = [store EXCEPT ![calls[c].uid] = RecordAfterUserInfo(@, outcome)]
    /\ calls' = [calls EXCEPT ![c] =
          IF outcome = "ok"
            THEN [calls[c] EXCEPT !.pc = "tool", !.effects = @ \cup {"write", "tool"}]
            ELSE Finish(calls[c], outcome)]
    /\ UNCHANGED <<accounts, listener, exchanges, process, bindError>>
    /\ UNCHANGED <<spawnError, auxVars>>
    /\ lastReq' = NoRequest

\* handleTool resolves or throws; either way a result is returned.
ToolDone(c, outcome) ==
    /\ Running
    /\ calls[c].pc = "tool"
    /\ calls' = [calls EXCEPT ![c] = Finish(calls[c], outcome)]
    /\ UNCHANGED <<accounts, store, listener, exchanges, process, bindError>>
    /\ UNCHANGED <<spawnError, auxVars>>
    /\ lastReq' = NoRequest

\* The result is sent to the client; the slot is free for the next call.
Reply(c) ==
    /\ process = "running"
    /\ calls[c].pc = "done"
    /\ calls' = [calls EXCEPT ![c] = IdleCall]
    /\ UNCHANGED <<accounts, store, listener, exchanges, process, bindError>>
    /\ UNCHANGED <<spawnError, auxVars>>
    /\ lastReq' = NoRequest

(***************************************************************************)
(* OAuthServer                                                             *)
(***************************************************************************)
\* handleRequest up to its await: 404, 400, or 200 followed by the call of
\* getCredentials(code); server.close() comes only after that call resolves.
HandleRequest(path, code) ==
    /\ Running
    /\ listener.state = "listening"
    /\ LET status == HandleStatus(path, code)
       IN /\ lastReq' = [path |-> path, code |-> code, status |-> status]
          /\ IF status = 200
               THEN /\ exchanges.current + exchanges.stale < MaxCodeRequests
                    /\ listener' = [listener EXCEPT !.codes = @ + 1]
                    /\ exchanges' = [exchanges EXCEPT !.current = @ + 1]
               ELSE UNCHANGED <<listener, exchanges>>
    /\ UNCHANGED <<accounts, store, calls, process, bindError>>
    /\ UNCHANGED <<spawnError, auxVars>>

\* getCredentials(code) of the bound listener resolves: the TokenSet is
\* persisted for the identity the provider reports, then server.close();
\* requests still being exchanged keep running.  If it throws, handleRequest
\* rejects with nobody awaiting it: an unhandled rejection, which ends the
\* process (Node >= 18).
ExchangeDone(outcome, who) ==
    /\ Running
    /\ exchanges.current > 0
    /\ IF outcome = "ok"
         THEN /\ store' = [store EXCEPT ![who] = StoredTokenSet]
              /\ listener' = [NoListener EXCEPT !.state = "closed"]
              /\ exchanges' = [exchanges EXCEPT !.current = 0,
                                                 !.stale = exchanges.stale + exchanges.current - 1]
              /\ UNCHANGED process
         ELSE /\ process' = "unhandledRejection"
              /\ listener' = NoListener
              /\ exchanges' = [exchanges EXCEPT !.current = @ - 1, !.failed = outcome]
              /\ UNCHANGED store
    /\ UNCHANGED <<accounts, calls, bindError>>
    /\ UNCHANGED <<spawnError, auxVars>>
    /\ lastReq' = NoRequest

\* getCredentials(code) of a listener that is already closed resolves.
StaleExchangeDone(outcome, who) ==
    /\ Running
    /\ exchanges.stale > 0
    /\ exchanges' = [exchanges EXCEPT !.stale = @ - 1,
                                       !.failed = IF outcome = "ok" THEN @ ELSE outcome]
    /\ IF outcome = "ok"
         THEN /\ store' = [store EXCEPT ![who] = StoredTokenSet]
              /\ UNCHANGED <<process, listener>>
         ELSE /\ process' = "unhandledRejection"
              /\ listener' = NoListener
              /\ UNCHANGED store
    /\ UNCHANGED <<accounts, calls, bindError>>
    /\ UNCHANGED <<spawnError, auxVars>>
    /\ lastReq' = NoRequest

Next ==
    \/ \E outcome \in StartOutcomes : Initialize(outcome)
    \/ \E outcome \in ScanOutcomes : ScanCredentials(outcome)
    \/ \E c \in CallIds : ReadFailed(c)
    \/ EmitSpawnError
    \/ \E c \in CallIds, name \in Tools, uid \in UserIds : uid \in ArgsOf(name) /\ CallTool(c, name, uid)
    \/ \E c \in CallIds, expired \in BOOLEAN : GotCredentials(c, expired)
    \/ \E c \in CallIds, expired \in BOOLEAN, spawned \in BOOLEAN :
            StartAuthFlow(c, expired, spawned)
    \/ EmitListenError
    \/ \E c \in CallIds, outcome \in RefreshOutcomes : UserInfo(c, outcome)
    \/ \E c \in CallIds, outcome \in ToolOutcomes : ToolDone(c, outcome)
    \/ \E c \in CallIds : Reply(c)
    \/ \E path \in Paths, code \in Codes \cup {NoCode} : HandleRequest(path, code)
    \/ \E outcome \in ExchangeOutcomes, who \in Identities : ExchangeDone(outcome, who)
    \/ \E outcome \in ExchangeOutcomes, who \in Identities : StaleExchangeDone(outcome, who)

Spec == Init /\ [][Next]_vars

(***************************************************************************)
(* The same program with the fairness its scheduling gives: a handler      *)
(* that can run does run, and every awaited disk or network operation      *)
(* completes.  Tool calls and callback requests come from outside and may  *)
(* never come.                                                             *)
(***************************************************************************)
CallStep(c) ==
    \/ \E expired \in BOOLEAN : GotCredentials(c, expired)
    \/ \E expired \in BOOLEAN, spawned \in BOOLEAN : StartAuthFlow(c, expired, spawned)
    \/ ReadFailed(c)
    \/ \E outcome \in RefreshOutcomes : UserInfo(c, outcome)
    \/ \E outcome \in ToolOutcomes : ToolDone(c, outcome)
    \/ Reply(c)

StartStep ==
    \/ \E outcome \in StartOutcomes : Initialize(outcome)
    \/ \E outcome \in ScanOutcomes : ScanCredentials(outcome)

ExchangeStep ==
    \/ \E outcome \in ExchangeOutcomes, who \in Identities : ExchangeDone(outcome, who)
    \/ \E outcome \in ExchangeOutcomes, who \in Identities : StaleExchangeDone(outcome, who)

FairSpec ==
    /\ Init /\ [][Next]_vars
    /\ \A c \in CallIds : WF_vars(CallStep(c))
    /\ WF_vars(ExchangeStep)
    /\ WF_vars(EmitListenError)
    /\ WF_vars(EmitSpawnError)
    /\ WF_vars(StartStep)

(***************************************************************************)
(* The server at rest: what the variables of the tool-call handler hold    *)
(* while the expiry test or the credential files are looked at alone.      *)
(***************************************************************************)
serverVars == <<accounts, store, calls, listener, exchanges, process, bindError, lastReq,
                spawnError>>

ServerAtRest ==
    /\ accounts = {"a@x.com", "b@x.com"}
    /\ store = [e \in Emails |-> NoRecord]
    /\ calls = [c \in CallIds |-> IdleCall]
    /\ listener = NoListener
    /\ exchanges = [current |-> 0, stale |-> 0, failed |-> "none"]
    /\ process = "running"
    /\ bindError = FALSE
    /\ spawnError = FALSE
    /\ lastReq = NoRequest

(***************************************************************************)
(* The expiry test of setupOAuth2 as a function of the stored expiry_date  *)
(* and the clock.                                                          *)
(***************************************************************************)
ExpiryInit ==
    /\ ServerAtRest
    /\ expiryCheck \in [now : Times, expiry_date : ExpiryDates, verdict : {"unchecked"}]
    /\ files = [k \in FilePaths |-> NoFile]
    /\ writers = [w \in CallIds |-> IdleWriter]
    /\ lastRead = NoRead
    /\ ToolLayerAtRest
    /\ helper = HelperAtRest

CheckExpiry ==
    /\ expiryCheck.verdict = "unchecked"
    /\ expiryCheck' = [expiryCheck EXCEPT !.verdict =
            IF IsExpired(expiryCheck, expiryCheck.now) THEN "expired" ELSE "valid"]
    /\ UNCHANGED <<serverVars, toolVars, helper, files, writers, lastRead>>

Tick ==
    /\ expiryCheck.now + 30 \in Times
    /\ expiryCheck' = [expiryCheck EXCEPT !.now = @ + 30, !.verdict = "unchecked"]
    /\ UNCHANGED <<serverVars, toolVars, helper, files, writers, lastRead>>

ExpiryNext == CheckExpiry \/ Tick

ExpirySpec == ExpiryInit /\ [][ExpiryNext]_vars

(***************************************************************************)
(* The credential files alone: storeCredentials and getStoredCredentials   *)
(* of concurrent invocations, each write a temporary file filled in two    *)
(* writes and renamed over the account's record.                           *)
(***************************************************************************)
StoreInit ==
    /\ ServerAtRest
    /\ expiryCheck = NoExpiryCheck
    /\ files = [k \in FilePaths |-> NoFile]
    /\ writers = [w \in CallIds |-> IdleWriter]
    /\ lastRead = NoRead
    /\ ToolLayerAtRest
    /\ helper = HelperAtRest

StartWrite(w, email, tokenSet, credentials, response) ==
    /\ writers[w].pc = "idle"
    /\ files' = [files EXCEPT ![TmpOf(w, KeyOf(email))] =
            [exists |-> TRUE, data |-> FirstPart(Serialize(tokenSet))]]
    /\ writers' = [writers EXCEPT ![w] =
            [pc |-> "writing", email |-> email, token |-> tokenSet,
             credentials |-> credentials, response |-> response]]
    /\ lastRead' = NoRead
    /\ UNCHANGED <<serverVars, toolVars, helper, expiryCheck>>

\* getCredentials: the TokenSet of a code exchange is stored.
StoreExchanged(w, email, response) ==
    StartWrite(w, email,
               [kind |-> "token", access |-> response.access, refresh |-> response.refresh],
               NotFound, response)

\* getUserInfo then storeCredentials: the record read is refreshed and stored.
StoreRefreshed(w, email, response) ==
    LET credentials == ReadFile(files, KeyOf(email)) IN
    /\ credentials.kind = "token"
    /\ credentials.refresh # NoRefresh
    /\ StartWrite(w, email, Refresh(credentials, response), credentials, response)

FinishWrite(w) ==
    /\ writers[w].pc = "writing"
    /\ files' = [files EXCEPT ![TmpOf(w, KeyOf(writers[w].email))] =
            [exists |-> TRUE, data |-> Serialize(writers[w].token)]]
    /\ writers' = [writers EXCEPT ![w].pc = "written"]
    /\ lastRead' = NoRead
    /\ UNCHANGED <<serverVars, toolVars, helper, expiryCheck>>

Rename(w) ==
    LET key == KeyOf(writers[w].email)
        tmp == TmpOf(w, key) IN
    /\ writers[w].pc = "written"
    /\ files' = IF tmp = key THEN files
                ELSE [files EXCEPT ![key] = files[tmp], ![tmp] = NoFile]
    /\ writers' = [writers EXCEPT ![w] = IdleWriter]
    /\ lastRead' = NoRead
    /\ UNCHANGED <<serverVars, toolVars, helper, expiryCheck>>

Read(email) ==
    /\ lastRead' = [email |-> email, result |-> ReadFile(files, KeyOf(email))]
    /\ UNCHANGED <<serverVars, toolVars, helper, expiryCheck, files, writers>>

StoreNext ==
    \/ \E w \in CallIds, email \in StoreEmails, response \in ExchangeResponses :
            StoreExchanged(w, email, response)
    \/ \E w \in CallIds, email \in StoreEmails, response \in RefreshResponses :
            StoreRefreshed(w, email, response)
    \/ \E w \in CallIds : FinishWrite(w)
    \/ \E w \in CallIds : Rename(w)
    \/ \E email \in StoreEmails : Read(email)

StoreSpec == StoreInit /\ [][StoreNext]_vars

(***************************************************************************)
(* The tool layer: GmailTools and CalendarTools, built by the constructor  *)
(* around the one OAuth client of GAuthService, the tool list, and the     *)
(* dispatch of a tool call after setupOAuth2.                              *)
(***************************************************************************)
storeVars == <<expiryCheck, files, writers, lastRead>>

ToolInit ==
    /\ ServerAtRest
    /\ expiryCheck = NoExpiryCheck
    /\ files = [k \in FilePaths |-> NoFile]
    /\ writers = [w \in CallIds |-> IdleWriter]
    /\ lastRead = NoRead
    /\ env \in EnvValues
    /\ phase = "new"
    /\ oauthClient = [initialized |-> FALSE, credentials |-> NoUser]
    /\ apiClients = [gmail |-> NoClient, calendar |-> NoClient]
    /\ toolCalls = [c \in CallIds |-> IdleToolCall]
    /\ lastList = NoList
    /\ helper = HelperAtRest

\* google.gmail / google.calendar({auth: gauth.getClient()}): the API client
\* keeps the OAuth client as it is when the handle is taken.
BuiltFrom(client) == IF client.initialized THEN "initialized" ELSE "uninitialized"

\* getTools of both classes: the sending tools are listed only when
\* GMAIL_ALLOW_SENDING is 'true'.
ToolList(e) == IF e = "true" THEN ToolNames ELSE ToolNames \ SendingTools

\* The Google API a tool's handler calls.
ApiOf(name) ==
    CASE name = "gmail_query_emails" -> "gmail.users.messages.list"
      [] name = "gmail_send_email"   -> "gmail.users.messages.send"
      [] name = "gmail_reply"        -> "gmail.users.messages.send"
      [] name = "gmail_forward"      -> "gmail.users.messages.send"
      [] name = "gmail_create_draft" -> "gmail.users.drafts.create"
      [] name = "calendar_list"      -> "calendar.calendarList.list"

ToolReplying == \E c \in CallIds : toolCalls[c].pc = "done"

\* new GoogleWorkspaceServer(config): GmailTools (client built on first
\* use), CalendarTools (client built at once), setupHandlers.
Construct ==
    /\ phase = "new"
    /\ phase' = "constructed"
    /\ apiClients' = [apiClients EXCEPT !.calendar = BuiltFrom(oauthClient)]
    /\ lastList' = NoList
    /\ UNCHANGED <<env, oauthClient, toolCalls>>
    /\ UNCHANGED <<serverVars, storeVars, helper>>

\* start(): gauth.initialize().
InitializeClient ==
    /\ phase = "constructed"
    /\ phase' = "initialized"
    /\ oauthClient' = [oauthClient EXCEPT !.initialized = TRUE]
    /\ lastList' = NoList
    /\ UNCHANGED <<env, apiClients, toolCalls>>
    /\ UNCHANGED <<serverVars, storeVars, helper>>

\* start(): server.connect(transport); requests are served from here on.
Connect ==
    /\ phase = "initialized"
    /\ phase' = "connected"
    /\ lastList' = NoList
    /\ UNCHANGED <<env, oauthClient, apiClients, toolCalls>>
    /\ UNCHANGED <<serverVars, storeVars, helper>>

ListToolsAfterSetup ==
    /\ phase = "connected"
    /\ oauthClient.credentials # NoUser
    /\ lastList' = ToolList(env)
    /\ UNCHANGED <<env, phase, oauthClient, apiClients, toolCalls>>
    /\ UNCHANGED <<serverVars, storeVars, helper>>

\* The ListToolsRequestSchema handler.
ListTools ==
    /\ phase = "connected"
    /\ lastList' = ToolList(env)
    /\ UNCHANGED <<env, phase, oauthClient, apiClients, toolCalls>>
    /\ UNCHANGED <<serverVars, storeVars, helper>>

\* A tool call with a user_id arrives and setupOAuth2 is awaited.
ToolCallArrives(c, name, uid) ==
    /\ phase = "connected"
    /\ ~ToolReplying
    /\ toolCalls[c].pc = "idle"
    /\ toolCalls' = [toolCalls EXCEPT ![c] =
          [IdleToolCall EXCEPT !.pc = "setup", !.name = name, !.uid = uid]]
    /\ lastList' = NoList
    /\ UNCHANGED <<env, phase, oauthClient, apiClients>>
    /\ UNCHANGED <<serverVars, storeVars, helper>>

\* setupOAuth2: with a stored record getUserInfo(credentials) puts the
\* account's tokens on the OAuth client and storeCredentials is awaited;
\* without one startAuthFlow returns and the client is left as it is.
SetupDone(c, found) ==
    /\ ~ToolReplying
    /\ toolCalls[c].pc = "setup"
    /\ oauthClient' = IF found THEN [oauthClient EXCEPT !.credentials = toolCalls[c].uid]
                              ELSE oauthClient
    /\ toolCalls' = [toolCalls EXCEPT ![c].pc = "dispatch"]
    /\ lastList' = NoList
    /\ UNCHANGED <<env, phase, apiClients>>
    /\ UNCHANGED <<serverVars, storeVars, helper>>

\* handleTool: the switch on the name runs the tool, which calls its API
\* through the class's client; GmailTools builds its client on first use.
HandleTool(c) ==
    /\ ~ToolReplying
    /\ toolCalls[c].pc = "dispatch"
    /\ apiClients' = IF toolCalls[c].name \in GmailToolNames /\ apiClients.gmail = NoClient
                        THEN [apiClients EXCEPT !.gmail = BuiltFrom(oauthClient)]
                        ELSE apiClients
    /\ toolCalls' = [toolCalls EXCEPT ![c] =
          [toolCalls[c] EXCEPT !.pc = "done", !.api = ApiOf(toolCalls[c].name),
                               !.authAs = oauthClient.credentials]]
    /\ lastList' = NoList
    /\ UNCHANGED <<env, phase, oauthClient>>
    /\ UNCHANGED <<serverVars, storeVars, helper>>

\* The result is sent.
ToolReply(c) ==
    /\ toolCalls[c].pc = "done"
    /\ toolCalls' = [toolCalls EXCEPT ![c] = IdleToolCall]
    /\ lastList' = NoList
    /\ UNCHANGED <<env, phase, oauthClient, apiClients>>
    /\ UNCHANGED <<serverVars, storeVars, helper>>

ToolNext ==
    \/ Construct
    \/ InitializeClient
    \/ Connect
    \/ ListTools
    \/ \E c \in CallIds, name \in ToolNames, uid \in ToolUsers :
            uid \in ToolArgsOf(name) /\ ToolCallArrives(c, name, uid)
    \/ \E c \in CallIds, found \in BOOLEAN : SetupDone(c, found)
    \/ \E c \in CallIds : HandleTool(c)
    \/ \E c \in CallIds : ToolReply(c)

ToolSpec == ToolInit /\ [][ToolNext]_vars

(***************************************************************************)
(* Claims                                                                  *)
(***************************************************************************)
SetupErrors == {"AccountNotConfigured", "NoAccountsConfigured", "ReauthRequired", "TransientNetworkError"}

\* C1: in every reachable state at most one interactive flow is in flight
\* (and so at most one listener competes for port 4100).
C1_AtMostOneFlow == PendingFlows <= 1

\* C2: a second interactive flow started while one is pending is rejected
\* before it binds: no bind conflict is ever raised and the process never
\* ends on EADDRINUSE.
C2_SecondFlowFailsFast == ~bindError /\ process # "EADDRINUSE"

\* C3: the tool handler of an invocation that started the interactive flow
\* is never running while its account is still AwaitingInteractiveAuth.
C3_AcquisitionBeforeApiCall ==
    \A c \in CallIds :
        (calls[c].pc = "tool" /\ "listen" \in calls[c].effects)
            => ~AwaitingInteractiveAuth(calls[c].uid)

\* C4: a tool call whose user_id is not exactly the email of a loaded
\* account ends with the account-not-configured error of setupOAuth2 and
\* has read or written no credential, contacted no provider, opened no
\* browser and started no listener; a user_id that is a loaded account's
\* email passes validation (the credential read is issued).
C4_UnknownAccountRejected ==
    \A c \in CallIds :
        LET call == calls[c]
        IN (call.pc # "idle" /\ call.name \notin ListAccountsTools /\ call.uid # NoUser) =>
             /\ call.uid \notin accounts =>
                  /\ call.pc = "done"
                  /\ call.result \in {"AccountNotConfigured", "NoAccountsConfigured"}
                  /\ call.effects = {}
             /\ call.uid \in accounts =>
                  /\ call.result \notin {"AccountNotConfigured", "NoAccountsConfigured"}
                  /\ "read" \in call.effects

C4_Witness ==
    \E c \in CallIds :
        /\ calls[c].pc = "done"
        /\ calls[c].uid = "A@x.com"
        /\ "a@x.com" \in accounts
        /\ calls[c].result = "AccountNotConfigured"

\* C5: a tool call that started the interactive flow completes only after
\* the TokenSet of its account has been persisted.
C5_CompletesAfterPersist ==
    \A c \in CallIds :
        (calls[c].pc = "done" /\ "listen" \in calls[c].effects)
            => store[calls[c].uid] # NoRecord

\* C6: a tool call that found a stored record (expired or not) opens no
\* authorization URL and starts no listener; once the refresh has succeeded
\* and the record is written, the tool is dispatched.
C6_StoredRecordNoInteractiveFlow ==
    \A c \in CallIds :
        LET call == calls[c]
        IN call.found =>
             /\ call.effects \cap FlowEffects = {}
             /\ "provider" \in call.effects
             /\ "write" \in call.effects =>
                  /\ "tool" \in call.effects
                  /\ call.pc \in {"tool", "done"}
                  /\ call.result \notin SetupErrors

C6_Witness ==
    \E c \in CallIds :
        /\ calls[c].found
        /\ calls[c].expired
        /\ "write" \in calls[c].effects
        /\ calls[c].pc = "tool"
        /\ store[calls[c].uid] # NoRecord
        /\ listener.state = "none"

\* C7: every interactive flow eventually resolves: a bound listener is
\* eventually torn down.
C7_FlowEventuallyResolves ==
    (listener.state = "listening") ~> (listener.state # "listening")

\* C8: a listener accepts at most one request carrying a code.
C8_OneShotListener == listener.codes <= 1

\* C9: a request answered 400 (GET /code without code) or 404 (any other
\* path) leaves the listener bound and the pending flow, the running
\* exchanges, the store and the process unchanged; every request is
\* answered 404, 400 or 200 according to its path and code.
C9_RejectedRequestKeepsListening ==
    [][lastReq' # NoRequest =>
         /\ lastReq'.status = (IF lastReq'.path # "/code" THEN 404
                               ELSE IF lastReq'.code = NoCode THEN 400 ELSE 200)
         /\ lastReq'.status # 200 =>
              /\ listener.state = "listening"
              /\ listener'.state = "listening"
              /\ listener'.owner = listener.owner
              /\ listener'.codes = listener.codes
              /\ UNCHANGED <<exchanges, store, process, bindError, calls>>]_vars

C9_Witness ==
    /\ listener.state = "listening"
    /\ listener.codes = 1
    /\ exchanges.current = 1
    /\ lastReq.status = 400

\* C10: no failure of a code exchange or of a refresh ends the process.
C10_FailureNeverEndsProcess == process # "unhandledRejection"

\* C11: after a code exchange has failed with InvalidGrantError the listener
\* of that flow is released and the server is still there to start a fresh
\* interactive flow for a later tool call.
C11_InvalidGrantReleasesListener ==
    exchanges.failed = "InvalidGrantError" =>
        /\ listener.state # "listening"
        /\ process = "running"

\* C12: the step that resolves the flow started for user_id U writes the
\* record of U and of no other account.
C12_RecordBoundToFlowAccount ==
    [][(listener.state = "listening" /\ listener'.state = "closed") =>
          /\ store'[listener.owner] # NoRecord
          /\ \A e \in Emails \ {listener.owner} : store'[e] = store[e]]_vars

\* C14: a tool call whose refresh failed with ReauthRequired has started
\* the interactive flow for its account.
C14_ReauthStartsInteractiveFlow ==
    \A c \in CallIds :
        calls[c].result = "ReauthRequired" =>
            /\ "listen" \in calls[c].effects
            /\ "open" \in calls[c].effects

\* C15: a TransientNetworkError during refresh ends that tool call with the
\* error and nothing else: the tool is not dispatched, no authorization URL
\* is opened, no listener is bound, no record is written, and the step
\* leaves the store, the listener, the process and every other call as
\* they were.
C15_TransientRefreshFailsOnlyTheCall ==
    /\ [](\A c \in CallIds :
            calls[c].result = "TransientNetworkError" =>
               /\ calls[c].pc = "done"
               /\ calls[c].found
               /\ calls[c].effects \cap (FlowEffects \cup {"write", "tool"}) = {})
    /\ [][\A c \in CallIds :
            (calls[c].result # "TransientNetworkError"
               /\ calls'[c].result = "TransientNetworkError") =>
               /\ store' = store
               /\ listener' = listener
               /\ process' = process
               /\ bindError' = bindError
               /\ \A d \in CallIds \ {c} : calls'[d] = calls[d]]_vars

C15_Witness ==
    \E c \in CallIds :
        /\ calls[c].result = "TransientNetworkError"
        /\ store[calls[c].uid] = StoredTokenSet
        /\ process = "running"

\* C17: while the listener waits for the callback of account A, a tool call
\* for another account B that has a stored record can always take its next
\* step.
C17_OtherAccountNotBlocked ==
    \A c \in CallIds :
        (/\ process = "running"
         /\ ~bindError
         /\ ~spawnError
         /\ \A d \in CallIds : calls[d].pc # "done"
         /\ listener.state = "listening"
         /\ listener.owner # calls[c].uid
         /\ calls[c].pc \in {"read", "userinfo", "tool"}
         /\ store[calls[c].uid] # NoRecord)
            => ENABLED CallStep(c)

C17_Witness ==
    \E c \in CallIds :
        /\ listener.state = "listening"
        /\ listener.owner = "a@x.com"
        /\ exchanges.current = 0
        /\ calls[c].uid = "b@x.com"
        /\ calls[c].found
        /\ calls[c].pc = "done"
        /\ calls[c].result = "ok"

SuccessfulRefreshStep(e) ==
    \E c \in CallIds :
        /\ calls[c].pc = "userinfo"
        /\ calls[c].uid = e
        /\ calls'[c].pc = "tool"
        /\ "write" \in calls'[c].effects

SuccessfulExchangeStep ==
    /\ exchanges'.current + exchanges'.stale < exchanges.current + exchanges.stale
    /\ exchanges'.failed = "none"
    /\ process' = "running"

\* C20: a record that exists is never deleted, and a record is created or
\* changed only by the step of a successful refresh for that account or of
\* a successful code exchange.
C20_RecordLifecycle ==
    [][\A e \in Emails :
          /\ store[e] # NoRecord => store'[e] # NoRecord
          /\ store'[e] # store[e] =>
               (SuccessfulRefreshStep(e) \/ SuccessfulExchangeStep)]_vars

C20_Witness ==
    /\ listener.state = "closed"
    /\ \E c \in CallIds :
          /\ "write" \in calls[c].effects
          /\ store[calls[c].uid] # NoRecord
    /\ \E e \in Emails : store[e] = NoRecord

\* C16: a TokenSet is treated as expired exactly when now >= expiry - 60 s
\* (the safety margin): one that expires 30 s from now is expired, one that
\* expires 120 s from now is not.
C16_ExpiryPredicate ==
    (expiryCheck.verdict # "unchecked" /\ expiryCheck.expiry_date # 0) =>
        (expiryCheck.verdict = "expired"
            <=> expiryCheck.now + 60 >= expiryCheck.expiry_date)

\* C13: when a refresh whose response omits the refresh token is persisted,
\* the record on disk has the refresh token of the TokenSet that was
\* refreshed; this holds of every refresh, however many came before.
C13_RefreshPreservesRefreshToken ==
    [][\A w \in CallIds :
         (/\ writers[w].pc = "written"
          /\ writers'[w].pc = "idle"
          /\ writers[w].credentials # NotFound
          /\ writers[w].response.refresh = NoRefresh)
         => ReadFile(files', KeyOf(writers[w].email)).refresh
                = writers[w].credentials.refresh]_vars

C13_Witness ==
    \E w \in CallIds :
        /\ writers[w].pc = "written"
        /\ writers[w].credentials = [kind |-> "token", access |-> "t2", refresh |-> "R"]
        /\ writers[w].response.refresh = NoRefresh
        /\ ReadFile(files, KeyOf(writers[w].email)) = writers[w].credentials

\* C18: whatever writes are in progress, a read of an account's record and
\* the record itself are not-found or a complete TokenSet, never a part of
\* one, also with two writers at once.
C18_AtomicStoreWrites ==
    /\ lastRead.result \in {NotFound} \cup TokenSets
    /\ \A e \in StoreEmails : ReadFile(files, KeyOf(e)) \in {NotFound} \cup TokenSets

C18_Witness ==
    /\ lastRead.email = "a@x.com"
    /\ lastRead.result \in TokenSets
    /\ \A w \in CallIds : writers[w].email = "a@x.com"
    /\ \E w1, w2 \in CallIds :
          /\ writers[w1].pc = "writing"
          /\ writers[w2].pc = "written"
          /\ writers[w1].token # writers[w2].token

C21_ConfigErrorFatalOnlyAtStartup ==
    [][/\ (process # "ConfigError" /\ process' = "ConfigError") =>
              /\ process = "starting"
              /\ UNCHANGED <<store, calls, listener, exchanges>>
       /\ process = "ConfigError" => UNCHANGED <<store, calls, listener, exchanges, process>>
       /\ process = "running" => process' = "running"]_vars

\* C22: a record that is there but cannot be parsed never ends the
\* process, neither in the scan at startup nor in a tool call, where the
\* StorageError is that call's result and the tool is not dispatched.
C22_CorruptRecordNeverCrashes ==
    /\ process # "StorageError"
    /\ \A c \in CallIds :
          calls[c].result = "StorageError" =>
              calls[c].pc = "done" /\ calls[c].effects = {"read"}

\* C23: a failed spawn of the browser does not end the process, and the
\* flow whose spawn failed has its listener.
C23_BrowserSpawnBestEffort ==
    /\ process # "ENOENT"
    /\ spawnError => (listener.state = "listening" \/ bindError)

\* No tool call is being handled and no code exchange is in flight.
Quiescent ==
    /\ \A c \in CallIds : calls[c].pc = "idle"
    /\ exchanges.current = 0
    /\ exchanges.stale = 0

\* C28: during startup, and while no tool call is being handled and no
\* callback arrives, no step changes a stored record, contacts the
\* provider or touches the listener: credentials are acted on only inside
\* the handling of a tool call or of a callback.
C28_TokenStateChangesOnlyAtUse ==
    [][(process \in {"starting", "scanning"} \/ (Quiescent /\ lastReq' = NoRequest)) =>
          /\ store' = store
          /\ exchanges' = exchanges
          /\ listener' = listener
          /\ \A c \in CallIds :
                calls'[c].effects \subseteq {"read"} /\ ~calls'[c].expired]_vars

C28_Witness ==
    /\ process = "running"
    /\ Quiescent
    /\ listener.state = "listening"
    /\ store["b@x.com"] = StoredTokenSet
    /\ store["a@x.com"] = NoRecord

\* C24: unless GMAIL_ALLOW_SENDING is exactly 'true', no tool list holds a
\* sending tool and no tool call that names one reaches the Gmail send or
\* draft-create API.
C24_SendingDisabledByDefault ==
    env # "true" =>
        /\ lastList \cap SendingTools = {}
        /\ \A c \in CallIds :
              toolCalls[c].api \notin {"gmail.users.messages.send",
                                       "gmail.users.drafts.create"}

\* C26: the API call of a tool call for user_id A is never authenticated
\* with the tokens of another account B.
C26_TokenIsolation ==
    \A c \in CallIds :
        toolCalls[c].pc = "done" => toolCalls[c].authAs \in {toolCalls[c].uid, NoUser}

\* C27: no API client is built from the OAuth client before
\* GAuthService.initialize() has completed.
C27_ClientAfterInitialize ==
    /\ apiClients.gmail # "uninitialized"
    /\ apiClients.calendar # "uninitialized"

\* C29: the tool-list handler is registered before the OAuth client is
\* initialized; once requests are served a list-tools request is answered
\* in every state, with the tool list, and changes nothing else.
C29_ToolDiscoveryWithoutAuth ==
    /\ [](oauthClient.initialized => phase # "new")
    /\ [](phase = "connected" => ENABLED ListTools)
    /\ [][lastList' # NoList =>
            /\ lastList' = (IF env = "true" THEN ToolNames ELSE ToolNames \ SendingTools)
            /\ UNCHANGED <<oauthClient, apiClients, toolCalls, phase>>
            /\ UNCHANGED <<store, listener, calls, exchanges, spawnError, files>>]_vars

C29_Witness ==
    /\ lastList = ToolNames \ SendingTools
    /\ env = "TRUE"
    /\ oauthClient.credentials = NoUser
    /\ \E c \in CallIds : toolCalls[c].pc = "setup"

-----------------------------------------------------------------------------
\* The standalone authentication helper (auth-helper.mjs): one listener on
\* port 4100, one callback per request, the process ended by the callback.

HelperPaths == {"/code", "/other"}

HelperListenOutcomes == {"ok", "EADDRINUSE"}

HelperExchangeOutcomes == {"ok", "failed"}

HelperInit ==
    /\ ServerAtRest
    /\ expiryCheck = NoExpiryCheck
    /\ files = [k \in FilePaths |-> NoFile]
    /\ writers = [w \in CallIds |-> IdleWriter]
    /\ lastRead = NoRead
    /\ ToolLayerAtRest
    /\ helper = HelperAtRest

HelperAlive == helper.exit = "none"

\* server.listen(4100): no 'error' listener, a taken port ends the process
\* with an uncaught exception (exit status 1).
HelperListen(outcome) ==
    /\ HelperAlive
    /\ helper.listener = "none"
    /\ helper' = IF outcome = "ok"
                 THEN [helper EXCEPT !.listener = "listening"]
                 ELSE [helper EXCEPT !.listener = "closed", !.exit = "1"]
    /\ UNCHANGED <<serverVars, storeVars, toolVars>>

\* spawn('open', [url]) without an 'error' listener: where there is no such
\* command the 'error' event ends the process (exit status 1).
HelperSpawnError ==
    /\ HelperAlive
    /\ helper.listener = "listening"
    /\ helper' = [helper EXCEPT !.listener = "closed", !.exit = "1"]
    /\ UNCHANGED <<serverVars, storeVars, toolVars>>

\* The callback up to its first await: 404 for another path, 400 without a
\* code, otherwise the exchange is started.
HelperRequest(r, path, hasCode) ==
    /\ HelperAlive
    /\ helper.listener = "listening"
    /\ helper.requests[r].state = "none"
    /\ helper' = [helper EXCEPT !.requests[r] =
                    IF path # "/code"
                    THEN [state |-> "answered", status |-> 404, exchange |-> "none"]
                    ELSE IF ~hasCode
                    THEN [state |-> "answered", status |-> 400, exchange |-> "none"]
                    ELSE [state |-> "exchanging", status |-> 0, exchange |-> "none"]]
    /\ UNCHANGED <<serverVars, storeVars, toolVars>>

\* The try block after a resolved exchange, the catch block after a thrown one.
HelperAnswerAlwaysSuccess(outcome) ==
    [status |-> 200, exit |-> "0"]

HelperAnswer(outcome) ==
    IF outcome = "ok" THEN [status |-> 200, exit |-> "0"]
                      ELSE [status |-> 500, exit |-> "1"]

\* await gauth.getCredentials(code) settles: answer, server.close(),
\* process.exit, in one synchronous run.
HelperExchangeDone(r, outcome) ==
    /\ HelperAlive
    /\ helper.requests[r].state = "exchanging"
    /\ helper' = [helper EXCEPT
                    !.requests[r] = [state |-> "answered",
                                     status |-> HelperAnswer(outcome).status,
                                     exchange |-> outcome],
                    !.listener = "closed",
                    !.exit = HelperAnswer(outcome).exit]
    /\ UNCHANGED <<serverVars, storeVars, toolVars>>

HelperNext ==
    \/ \E outcome \in HelperListenOutcomes : HelperListen(outcome)
    \/ HelperSpawnError
    \/ \E r \in HelperRequestIds, path \in HelperPaths, hasCode \in BOOLEAN :
            HelperRequest(r, path, hasCode)
    \/ \E r \in HelperRequestIds, outcome \in HelperExchangeOutcomes :
            HelperExchangeDone(r, outcome)

HelperSpec == HelperInit /\ [][HelperNext]_vars

\* C30: the helper answers 200 only for a request whose exchange succeeded
\* and then exits 0; a failed exchange is answered 500 with exit 1; in both
\* the listener is closed; a 404 or 400 answer leaves the helper listening.
C30_HelperCallback ==
    /\ [](\A r \in HelperRequestIds :
            /\ helper.requests[r].status = 200 =>
                   /\ helper.requests[r].exchange = "ok"
                   /\ helper.exit = "0"
                   /\ helper.listener = "closed"
            /\ helper.requests[r].exchange = "ok" =>
                   helper.requests[r].status = 200
            /\ helper.requests[r].exchange = "failed" =>
                   /\ helper.requests[r].status = 500
                   /\ helper.exit = "1"
                   /\ helper.listener = "closed")
    /\ [](helper.exit = "0" =>
            \E r \in HelperRequestIds : helper.requests[r].status = 200)
    /\ [][\A r \in HelperRequestIds :
            (helper.requests[r].status = 0 /\ helper'.requests[r].status \in {400, 404})
                => /\ helper'.listener = "listening"
                   /\ helper'.exit = "none"]_vars

C30_Witness ==
    /\ \E r \in HelperRequestIds : helper.requests[r].status = 404
    /\ \E r \in HelperRequestIds : helper.requests[r].status = 400
    /\ \E r \in HelperRequestIds :
            /\ helper.requests[r].status = 500
            /\ helper.requests[r].exchange = "failed"
    /\ helper.exit = "1"
    /\ helper.listener = "closed"

====
